---- MODULE Spec2Model ----
(***************************************************************************)
(* Model of QianwenPaperQAAPI (src/qianwen_paper_qa_api.py): the document  *)
(* store lifecycle (content-hash cache, Chroma / FAISS vector stores,      *)
(* incremental add / delete / list) and the question path.                 *)
(*                                                                         *)
(* One API instance is modelled together with the state it shares with     *)
(* the rest of the process: the module-global config.VECTOR_STORE_TYPE,    *)
(* the cache directory, the Chroma persistence directory and the clock.    *)
(* Every public method is one action that runs the whole call; the faults  *)
(* of its collaborators (PDF loader, splitter, embedding service, disk,    *)
(* LLM construction, completion service) are inputs of the action.         *)
(*                                                                         *)
(* The upload handler of the UI (src/gradio_app.py), the embedding gateway  *)
(* (src/custom_qwen_embeddings.py), two concurrent callers of the          *)
(* instance, the chat-history panel (src/gradio_app.py over                *)
(* src/chat_history_db.py) and the GitHub login (src/github_auth.py) have  *)
(* specifications of their own over the same state.                        *)
(*                                                                         *)
(* Left out: wall-clock floats (timestamp, added_at; processing_time is    *)
(* "0" or "elapsed"), page numbers in chunk metadata, and the vectors. A   *)
(* chunk's text and metadata are its index in the document's chunk list.   *)
(***************************************************************************)
EXTENDS Integers, Sequences, FiniteSets, TLC

----------------------------------------------------------------------------
(* Bounds of the model *)

\* chunk count of the large model document; more than BATCH_SIZE, so that
\* its embedding takes two batches
MaxChunks == 5
\* int(time.time()) ranges over 0..MaxTime
MaxTime == 1
\* a run makes at most MaxCalls calls of the API's methods
MaxCalls == 3

(* Program constants: Config *)
BATCH_SIZE == 4
MAX_RETRIES == 3

----------------------------------------------------------------------------
(* The files the caller may pass. A path is its sequence of components. *)

NoPath == <<>>
PathA == <<"u", "a.pdf">>
PathB == <<"v", "b.pdf">>
PathC == <<"u", "c.pdf">>
PathE == <<"u", "e.pdf">>
PathT == <<"u", "n.txt">>
PathGone == <<"u", "gone.pdf">>
Paths == {PathA, PathB, PathC, PathE, PathT, PathGone}
\* the files passed to add_document
AddPaths == {PathB, PathC, PathGone}

NoName == ""
\* os.path.basename / source_file.split('/')[-1]: the last component
Basename(p) == IF Len(p) = 0 THEN NoName ELSE p[Len(p)]

\* os.path.exists
PathExists(p) == p \in {PathA, PathB, PathC, PathE, PathT}
\* file_path.lower().endswith('.pdf')
EndsWithPdf(p) == Basename(p) \in {"a.pdf", "b.pdf", "c.pdf", "e.pdf", "gone.pdf"}

\* The bytes of each file: a.pdf and b.pdf hold the same bytes.
FileBytes(p) ==
  CASE p = PathA -> "B1"
    [] p = PathB -> "B1"
    [] p = PathC -> "B2"
    [] p = PathE -> "B3"
    [] p = PathT -> "B2"
    [] OTHER -> "none"

NoHash == "none"
Hashes == {"h1", "h2", "h3"}
\* hashlib.md5 over the whole content, read in 8192-byte blocks; MD5 is
\* taken to be collision-free on the model's three contents.
Md5(bytes) ==
  CASE bytes = "B1" -> "h1"
    [] bytes = "B2" -> "h2"
    [] bytes = "B3" -> "h3"
    [] OTHER -> NoHash

\* A plausible bug: the digest is taken over the path, not over the bytes.
get_file_hash_of_name(p) ==
  CASE p = PathA -> "h1"
    [] p = PathB -> "h3"
    [] p = PathC -> "h2"
    [] p = PathE -> "h3"
    [] p = PathT -> "h2"
    [] OTHER -> NoHash
get_file_hash(p) == Md5(FileBytes(p))

\* PyPDFLoader(path).load(): the number of page documents of a content
PagesOf(bytes) ==
  CASE bytes = "B1" -> 2
    [] bytes = "B2" -> 1
    [] OTHER -> 0
\* RecursiveCharacterTextSplitter.split_documents: the number of chunks
ChunksOf(bytes) ==
  CASE bytes = "B1" -> MaxChunks
    [] bytes = "B2" -> 1
    [] OTHER -> 0

----------------------------------------------------------------------------
(* Faults of the collaborators, chosen by the environment per call. *)

NoFault == [at |-> "none", batch |-> 0, fails |-> 0]
FaultAt(a) == [at |-> a, batch |-> 0, fails |-> 0]
\* the embedding call of batch `batch` fails `fails` times in a row
EmbedFault(b, j) == [at |-> "embed", batch |-> b, fails |-> j]
NumBatches(n) == (n + BATCH_SIZE - 1) \div BATCH_SIZE
\* a batch fails once (and succeeds when retried) or on every attempt
EmbedFaults ==
  {EmbedFault(b, j) : b \in 0..(NumBatches(MaxChunks) - 1), j \in {1, MAX_RETRIES}}
\* "chain": as_retriever, ChatOpenAI or RetrievalQA.from_chain_type raising
ProcessFaults ==
  {NoFault} \cup EmbedFaults \cup
  {FaultAt(a) : a \in {"load", "split", "save_index", "save_meta", "chain"}}
AddFaults ==
  {NoFault} \cup {EmbedFault(b, 1) : b \in 0..(NumBatches(MaxChunks) - 1)} \cup
  {FaultAt(a) : a \in {"load", "split"}}
\* collection.get() / collection.delete() raising
StoreFaults == {NoFault, FaultAt("store")}
\* qa_chain.invoke raising (retrieval or completion)
AskFaults == {NoFault, FaultAt("completion")}

\* Questions: empty, whitespace only, and a real one
Questions == {"", "  ", "q"}
\* question.strip()
Strip(q) == IF q = "  " THEN "" ELSE q
\* the canned prompt of get_document_summary
SummaryQuestion == "summarize"
\* source names passed to delete_document_by_source
SourceNames == {"a.pdf", "b.pdf", "c.pdf"}

----------------------------------------------------------------------------
VARIABLES
  config_type,       \* config.VECTOR_STORE_TYPE, global to the process
  cache,             \* CACHE_DIR/<hash>/: FAISS index files and metadata.pkl
  chroma_db,         \* CHROMA_DB_DIR/<hash>/: the persisted Chroma collection
  now,               \* int(time.time()) as last read by add_document
  vector_store,      \* self.vector_store
  qa_chain,          \* self.qa_chain: the store its retriever reads
  current_document,  \* self.current_document
  document_info,     \* self.document_info
  embeddings,        \* self.embeddings is set
  result,            \* what the last call returned
  calls,             \* the number of calls made so far
  ui_documents,      \* GradioRAGApp.documents, in doc_id order
  threads,           \* the calls in flight, when callers run concurrently
  current_user,      \* GradioRAGApp.current_user: the user id, NoUser for None
  chat_sessions,     \* the chat_sessions and chat_messages tables
  history_view,      \* what the history panel last showed, and to whom
  session_store,     \* github_auth.session_store: the OAuth states issued
  requests           \* the /auth/callback requests in flight

vars == <<config_type, cache, chroma_db, now, vector_store, qa_chain,
          current_document, document_info, embeddings, result, calls,
          ui_documents, threads, current_user, chat_sessions, history_view,
          session_store, requests>>

\* the state of the web layer: chat history and GitHub login
web == <<current_user, chat_sessions, history_view, session_store, requests>>

disk == <<cache, chroma_db>>
instance == <<vector_store, qa_chain, current_document, document_info, embeddings>>

(* Store handles. A Chroma object reads and writes the persisted collection
   of its directory; a FAISS object holds the chunks of the content it was
   built from (n of them). *)
NoStore == [kind |-> "none", hash |-> NoHash, n |-> 0]
ChromaStore(h) == [kind |-> "chroma", hash |-> h, n |-> 0]
FaissStore(h, n) == [kind |-> "faiss", hash |-> h, n |-> n]

(* self.document_info. base: the keys process_document writes are present;
   has_documents: the 'documents' key is present; documents: the entries
   add_document appended (the copy of the base entry that leads the list
   is DocumentsList's first element). *)
NoInfo ==
  [base |-> FALSE, file_name |-> NoName, file_path |-> NoPath, file_hash |-> NoHash,
   pages_count |-> 0, chunks_count |-> 0, vector_store_type |-> "none",
   has_documents |-> FALSE, documents |-> <<>>]
AddedInfo(p, pages, chunks) ==
  [file_name |-> Basename(p), file_path |-> p, pages_count |-> pages, chunks_count |-> chunks]
BaseEntry(info) ==
  [file_name |-> info.file_name, file_path |-> info.file_path,
   pages_count |-> info.pages_count, chunks_count |-> info.chunks_count]
DocumentsList(info) ==
  IF ~info.has_documents THEN <<>>
  ELSE (IF info.base THEN <<BaseEntry(info)>> ELSE <<>>) \o info.documents
\* truthiness of the dict
InfoTruthy(info) == info.base \/ info.has_documents

(* CACHE_DIR/<hash>/ *)
NoCache ==
  [dir |-> FALSE, index |-> 0, meta |-> "none", type |-> "none", source |-> NoPath, n |-> 0]
(* CHROMA_DB_DIR/<hash>/ *)
NoCollection == [exists |-> FALSE, docs |-> {}]

(* A caller's call in flight: where it is in the method (pc), its arguments
   (path, name), the second it read (t), the next batch (k), the ids found
   for deletion (ids) and the collection when it entered (pre). *)
Threads == {"t1", "t2"}
Idle ==
  [pc |-> "idle", path |-> NoPath, name |-> NoName, t |-> 0, k |-> 0, ids |-> {}, pre |-> {}]

(* What a call returns, and what it did: embed_calls is the number of
   requests to the embedding service, max_texts the largest number of texts
   one of them carried, attempts the number of attempts made on the batch
   whose embedding failed (0 when none failed), chain_calls the number of
   invocations of the QA chain, dangling whether the cache directory was
   there and could not be loaded, escaped whether an exception left the
   method, processing_time "0" or "elapsed". *)
NoResult ==
  [op |-> "none", path |-> NoPath, arg |-> "", success |-> FALSE, msg |-> "none",
   file_hash |-> NoHash, cache_hit |-> FALSE, embed_calls |-> 0, chain_calls |-> 0,
   info |-> NoInfo, answer |-> "None", deleted_count |-> 0, documents |-> {},
   max_texts |-> 0, attempts |-> 0, dangling |-> FALSE, escaped |-> FALSE,
   processing_time |-> "0"]

----------------------------------------------------------------------------
(* The Chroma collection: a set of entries, one per id. *)

\* f"{pdf_hash}_{i}" and f"add_{int(time.time())}_{i}"
BuildId(h, i) == <<h, 0, i>>
AddId(t, i) == <<"add", t, i>>

\* An entry of a collection: its id, the chunk text it holds (with the vector
\* of that text), and its metadata: the loader's 'source', add_document's
\* 'source_file', and the chunk the metadata dict belongs to. A chunk text
\* and a metadata dict are named by the chunk's index in the document.
Entry(id, p, sf, text, meta) ==
  [id |-> id, source |-> p, source_file |-> sf, text |-> text, meta |-> meta]
Ids(docs) == {d.id : d \in docs}
\* all_texts / all_metadatas of a document of n chunks
AllTexts(n) == [i \in 1..n |-> i - 1]
AllMetadatas(n) == [i \in 1..n |-> i - 1]
\* seq[i:i+batch_size]
Slice(seq, i) ==
  IF i >= Len(seq) THEN <<>>
  ELSE SubSeq(seq, i + 1, IF i + BATCH_SIZE <= Len(seq) THEN i + BATCH_SIZE ELSE Len(seq))
\* Chroma.add_texts with ids: collection.upsert
Upsert(docs, new) == {d \in docs : d.id \notin Ids(new)} \cup new
\* collection.count()
Count(h) == Cardinality(chroma_db[h].docs)

\* CustomQwenEmbeddings.embed_documents: the sizes of the requests it sends
\* to the embedding service for n texts (one request carrying all of them)
embed_documents(n) == <<n>>
\* len(all_texts[i:i+batch_size]) of batch b, i = b * batch_size
BatchLen(n, b) ==
  IF (b + 1) * BATCH_SIZE <= n THEN BATCH_SIZE
  ELSE IF b * BATCH_SIZE < n THEN n - b * BATCH_SIZE
  ELSE 0
\* the largest request sent while embedding the first c batches of n texts,
\* each batch handed to embed_documents by add_texts / from_texts
Largest(sizes) == IF sizes = {} THEN 0 ELSE CHOOSE m \in sizes : \A x \in sizes : x <= m
Sizes(sent) == {sent[i] : i \in 1..Len(sent)}
MaxTexts(n, c) ==
  Largest(UNION {Sizes(embed_documents(BatchLen(n, b))) : b \in 0..(c - 1)})

----------------------------------------------------------------------------
(* load_embeddings_cache and save_embeddings_cache *)

\* A plausible bug: the Chroma branch opens the collection without checking
\* that the directory exists and that the collection holds vectors.
load_embeddings_cache_unchecked(h) ==
  LET e == cache[h] IN
  IF ~e.dir THEN NoStore
  ELSE IF e.meta = "none" THEN NoStore
  ELSE IF e.meta = "corrupt" THEN NoStore
  ELSE IF e.type = "faiss" THEN
         (IF e.index > 0 THEN FaissStore(h, e.index) ELSE NoStore)
  ELSE IF e.type = "chroma" THEN ChromaStore(h)
  ELSE NoStore
\* The store load_embeddings_cache returns, NoStore for (None, None).
load_embeddings_cache(h) ==
  LET e == cache[h] IN
  IF ~e.dir THEN NoStore
  ELSE IF e.meta = "none" THEN NoStore
  ELSE IF e.meta = "corrupt" THEN NoStore
  ELSE IF e.type = "faiss" THEN
         (IF e.index > 0 THEN FaissStore(h, e.index) ELSE NoStore)
  ELSE IF e.type = "chroma" THEN
         (IF chroma_db[h].exists /\ Count(h) > 0 THEN ChromaStore(h) ELSE NoStore)
  ELSE NoStore

\* A plausible bug: the metadata record is written before the index, and
\* survives a failure of the call.
save_embeddings_cache_meta_first(entry, store, p, n, f) ==
  LET done == [entry EXCEPT !.dir = TRUE, !.meta = "ok", !.type = config_type,
                            !.source = p, !.n = n,
                            !.index = IF store.kind = "faiss" /\ f.at # "save_index"
                                      THEN store.n ELSE entry.index]
  IN [entry |-> done, raised |-> f.at \in {"save_index", "save_meta"}]
\* The cache directory after save_embeddings_cache, and whether it raised.
save_embeddings_cache(entry, store, p, n, f) ==
  LET e1 == [entry EXCEPT !.dir = TRUE]
      e2 == IF store.kind = "faiss" THEN [e1 EXCEPT !.index = store.n] ELSE e1
  IN IF store.kind = "faiss" /\ f.at = "save_index" THEN [entry |-> e1, raised |-> TRUE]
     ELSE IF f.at = "save_meta" THEN
       [entry |-> [e2 EXCEPT !.meta = "corrupt", !.type = "none", !.source = NoPath, !.n = 0],
        raised |-> TRUE]
     ELSE
       [entry |-> [e2 EXCEPT !.meta = "ok", !.type = config_type, !.source = p, !.n = n],
        raised |-> FALSE]

----------------------------------------------------------------------------
(* Building a vector store in batches *)

\* A plausible bug: the ids of a batch are numbered from 0 in every batch.
BuildBatch_ids_per_batch(p, h, n, b) ==
  LET i == b * BATCH_SIZE
      batch_texts == Slice(AllTexts(n), i)
      batch_metadatas == Slice(AllMetadatas(n), i)
  IN {Entry(BuildId(h, j), p, NoName, batch_texts[j + 1], batch_metadatas[j + 1]) :
        j \in 0..(Len(batch_texts) - 1)}
\* Lines 212-226: the entries add_texts writes for batch b of the build
BuildBatch(p, h, n, b) ==
  LET i == b * BATCH_SIZE
      batch_texts == Slice(AllTexts(n), i)
      batch_metadatas == Slice(AllMetadatas(n), i)
  IN {Entry(BuildId(h, i + j), p, NoName, batch_texts[j + 1], batch_metadatas[j + 1]) :
        j \in 0..(Len(batch_texts) - 1)}

\* the collection after add_texts of the batches b .. k-1, one after another
RECURSIVE BuildBatches(_, _, _, _, _, _)
BuildBatches(docs, p, h, n, b, k) ==
  IF b >= k THEN docs
  ELSE BuildBatches(Upsert(docs, BuildBatch(p, h, n, b)), p, h, n, b + 1, k)

\* Chroma: one add_texts (one embedding call) per batch, no retry; the
\* batches before a failing one stay in the persisted collection.
create_chroma_vector_store(p, h, n, f) ==
  LET failing == f.at = "embed" /\ f.batch < NumBatches(n)
      k == IF failing THEN f.batch ELSE NumBatches(n)
      tried == IF failing THEN k + 1 ELSE k
  IN [coll |-> [exists |-> TRUE, docs |-> BuildBatches(chroma_db[h].docs, p, h, n, 0, k)],
      store |-> IF failing THEN NoStore ELSE ChromaStore(h),
      calls |-> tried,
      texts |-> MaxTexts(n, tried),
      attempts |-> IF failing THEN 1 ELSE 0,
      raised |-> failing]

\* the (text, metadata) pairs of a FAISS store after from_texts of batch 0
\* and merge_from of the batches after it, in docstore order
RECURSIVE FaissMerged(_, _, _)
FaissMerged(acc, n, b) ==
  IF b >= NumBatches(n) THEN acc
  ELSE LET i == b * BATCH_SIZE
           batch_texts == Slice(AllTexts(n), i)
           batch_metadatas == Slice(AllMetadatas(n), i)
           batch == [j \in 1..Len(batch_texts) |-> <<batch_texts[j], batch_metadatas[j]>>]
       IN FaissMerged(acc \o batch, n, b + 1)

\* FAISS: each batch is attempted up to max_retries times; the store lives
\* in memory only.
create_faiss_vector_store(h, n, f) ==
  LET failing == f.at = "embed" /\ f.batch < NumBatches(n)
      raised == failing /\ f.fails >= MAX_RETRIES
      tried == IF raised THEN f.batch + 1 ELSE NumBatches(n)
  IN [coll |-> chroma_db[h],
      store |-> IF raised THEN NoStore ELSE FaissStore(h, Len(FaissMerged(<<>>, n, 0))),
      calls |-> IF ~failing THEN NumBatches(n)
                ELSE IF raised THEN f.batch + MAX_RETRIES
                ELSE NumBatches(n) + f.fails,
      texts |-> MaxTexts(n, tried),
      attempts |-> IF ~failing THEN 0
                   ELSE IF raised THEN MAX_RETRIES
                   ELSE f.fails + 1,
      raised |-> raised]

create_vector_store_with_batches(p, h, n, f) ==
  IF config_type = "chroma" THEN create_chroma_vector_store(p, h, n, f)
  ELSE create_faiss_vector_store(h, n, f)

----------------------------------------------------------------------------
(* process_document *)

\* validate_pdf_file: "ok", or the error it raises
validate_pdf_file(p) ==
  IF ~PathExists(p) THEN "not_found"
  ELSE IF ~EndsWithPdf(p) THEN "bad_format"
  ELSE "ok"

\* a 'success': False result returned by an explicit check
Failure(op, p, arg, msg) ==
  [NoResult EXCEPT !.op = op, !.path = p, !.arg = arg, !.msg = msg]

\* A plausible bug: the handler logs the exception and raises it again, as
\* save_embeddings_cache and embed_documents do.
Except_reraise(op, p, arg, msg) ==
  [NoResult EXCEPT !.op = op, !.path = p, !.arg = arg, !.msg = msg, !.escaped = TRUE]
\* The 'except Exception' handler of a public method: the exception raised in
\* the try block becomes a 'success': False result carrying its message.
Except(op, p, arg, msg) ==
  [NoResult EXCEPT !.op = op, !.path = p, !.arg = arg, !.msg = msg]

\* Lines 296-331, the cache-miss path: load, split, build, save. msg is "ok"
\* or the error raised; entry and coll are the directories afterwards.
BuildOutcome(p, h, f) ==
  LET bytes == FileBytes(p)
      pages == PagesOf(bytes)
      n == ChunksOf(bytes)
      stay == [msg |-> "ok", entry |-> cache[h], coll |-> chroma_db[h], store |-> NoStore,
               calls |-> 0, texts |-> 0, attempts |-> 0, pages |-> pages, chunks |-> n]
      built == create_vector_store_with_batches(p, h, n, f)
      saved == save_embeddings_cache(cache[h], built.store, p, n, f)
      embedded == [stay EXCEPT !.coll = built.coll, !.calls = built.calls,
                               !.texts = built.texts, !.attempts = built.attempts]
  IN IF f.at = "load" THEN [stay EXCEPT !.msg = "load_error"]
     ELSE IF pages = 0 THEN [stay EXCEPT !.msg = "empty_document"]
     ELSE IF f.at = "split" THEN [stay EXCEPT !.msg = "split_error"]
     ELSE IF n = 0 THEN [stay EXCEPT !.msg = "split_failed"]
     ELSE IF built.raised THEN [embedded EXCEPT !.msg = "embedding_error"]
     ELSE IF saved.raised THEN [embedded EXCEPT !.msg = "save_error", !.entry = saved.entry]
     ELSE [embedded EXCEPT !.entry = saved.entry, !.store = built.store]

\* Lines 287-294: the cached store, or the store just built.
StoreOutcome(p, h, f) ==
  LET cached == load_embeddings_cache(h) IN
  IF cached # NoStore THEN
    [msg |-> "ok", entry |-> cache[h], coll |-> chroma_db[h], store |-> cached,
     calls |-> 0, texts |-> 0, attempts |-> 0, pages |-> 0, chunks |-> cache[h].n,
     hit |-> TRUE, dangling |-> FALSE]
  ELSE
    LET b == BuildOutcome(p, h, f) IN
    [msg |-> b.msg, entry |-> b.entry, coll |-> b.coll, store |-> b.store,
     calls |-> b.calls, texts |-> b.texts, attempts |-> b.attempts, pages |-> b.pages,
     chunks |-> b.chunks, hit |-> FALSE, dangling |-> cache[h].dir]

ProcessedInfo(p, h, o) ==
  [NoInfo EXCEPT !.base = TRUE, !.file_name = Basename(p), !.file_path = p, !.file_hash = h,
                 !.pages_count = o.pages, !.chunks_count = o.chunks,
                 !.vector_store_type = config_type]

\* A fault is an input only of a call that reaches the faulty step.
ProcessReaches(p, f) ==
  LET n == ChunksOf(FileBytes(p))
      miss == load_embeddings_cache(get_file_hash(p)) = NoStore
  IN \/ f = NoFault
     \/ /\ validate_pdf_file(p) = "ok"
        /\ \/ f.at = "load" /\ miss
           \/ f.at = "split" /\ miss /\ PagesOf(FileBytes(p)) > 0
           \/ f.at = "embed" /\ miss /\ f.batch < NumBatches(n)
           \/ f.at = "save_index" /\ miss /\ n > 0 /\ config_type # "chroma"
           \/ f.at = "save_meta" /\ miss /\ n > 0
           \/ f.at = "chain" /\ (miss => n > 0)

\* the result r with the record of what the call did
Did(r, h, o) ==
  [r EXCEPT !.file_hash = h, !.cache_hit = o.hit, !.embed_calls = o.calls,
            !.max_texts = o.texts, !.attempts = o.attempts, !.dangling = o.dangling]

\* One call of process_document: what it does to the instance, the disk and
\* the result.
process_document(p, f) ==
  LET v == validate_pdf_file(p)
      h == get_file_hash(p)
  IN /\ calls < MaxCalls
     /\ calls' = calls + 1
     /\ ProcessReaches(p, f)
     /\ UNCHANGED <<config_type, now, threads, web>>
     /\ IF v # "ok" THEN
          /\ result' = Except("process", p, "", v)
          /\ UNCHANGED <<disk, instance>>
        ELSE
          \E o \in {StoreOutcome(p, h, f)} :
            /\ embeddings' = TRUE
            /\ cache' = [cache EXCEPT ![h] = o.entry]
            /\ chroma_db' = [chroma_db EXCEPT ![h] = o.coll]
            /\ IF o.msg # "ok" THEN
                 /\ result' = Did(Except("process", p, "", o.msg), h, o)
                 /\ UNCHANGED <<vector_store, qa_chain, current_document, document_info>>
               ELSE IF f.at = "chain" THEN
                 \* self.vector_store is assigned before the chain is built
                 /\ vector_store' = o.store
                 /\ result' = Did(Except("process", p, "", "chain_error"), h, o)
                 /\ UNCHANGED <<qa_chain, current_document, document_info>>
               ELSE
                 /\ vector_store' = o.store
                 /\ qa_chain' = o.store
                 /\ current_document' = p
                 /\ document_info' = ProcessedInfo(p, h, o)
                 /\ result' = [Did(Failure("process", p, "", "ok"), h, o) EXCEPT
                                 !.success = TRUE, !.info = ProcessedInfo(p, h, o)]

ProcessDocument(p, f) == process_document(p, f) /\ UNCHANGED ui_documents

----------------------------------------------------------------------------
(* ask_question and get_document_summary *)

\* A plausible bug: the blank-question check is missing.
AskResult_unchecked(op, q, f) ==
  IF f.at = "completion" THEN
    [Except(op, NoPath, q, "answer_error") EXCEPT !.chain_calls = 1]
  ELSE [Failure(op, NoPath, q, "ok") EXCEPT
          !.success = TRUE, !.answer = "generated", !.chain_calls = 1,
          !.processing_time = "elapsed"]
\* A plausible bug: a failed invocation of the chain is tried a second time.
AskResult_retrying(op, q, f) ==
  IF q = "" \/ Strip(q) = "" THEN Failure(op, NoPath, q, "empty_question")
  ELSE IF f.at = "completion" THEN
    [Failure(op, NoPath, Strip(q), "ok") EXCEPT
       !.success = TRUE, !.answer = "generated", !.chain_calls = 2,
       !.processing_time = "elapsed"]
  ELSE [Failure(op, NoPath, Strip(q), "ok") EXCEPT
          !.success = TRUE, !.answer = "generated", !.chain_calls = 1,
          !.processing_time = "elapsed"]
\* Lines 396-428: the question check and the single chain invocation.
AskResult(op, q, f) ==
  IF q = "" \/ Strip(q) = "" THEN Failure(op, NoPath, q, "empty_question")
  ELSE IF f.at = "completion" THEN
    [Except(op, NoPath, q, "answer_error") EXCEPT !.chain_calls = 1]
  ELSE [Failure(op, NoPath, Strip(q), "ok") EXCEPT
          !.success = TRUE, !.answer = "generated", !.chain_calls = 1,
          !.processing_time = "elapsed"]

ask_question_result(op, q, f) ==
  IF qa_chain = NoStore THEN Failure(op, NoPath, q, "no_document")
  ELSE AskResult(op, q, f)

AskQuestion(q, f) ==
  /\ calls < MaxCalls
  /\ calls' = calls + 1
  /\ f # NoFault => ask_question_result("ask", q, f).chain_calls > 0
  /\ result' = ask_question_result("ask", q, f)
  /\ UNCHANGED <<config_type, disk, now, instance, ui_documents, threads, web>>

GetDocumentSummary(f) ==
  /\ calls < MaxCalls
  /\ calls' = calls + 1
  /\ f # NoFault => qa_chain # NoStore
  /\ result' = IF qa_chain = NoStore THEN Failure("summary", NoPath, "", "no_document")
               ELSE ask_question_result("summary", SummaryQuestion, f)
  /\ UNCHANGED <<config_type, disk, now, instance, ui_documents, threads, web>>

----------------------------------------------------------------------------
(* add_document *)

\* Lines 503-521: one add_texts per batch into the active collection; a
\* failing batch raises and the batches before it stay.
AddBatch(p, n, t, b) ==
  LET i == b * BATCH_SIZE
      batch_texts == Slice(AllTexts(n), i)
      batch_metadatas == Slice(AllMetadatas(n), i)
  IN {Entry(AddId(t, i + j), p, Basename(p), batch_texts[j + 1], batch_metadatas[j + 1]) :
        j \in 0..(Len(batch_texts) - 1)}

\* the collection after add_texts of the batches b .. k-1, one after another
RECURSIVE AddedBatches(_, _, _, _, _, _)
AddedBatches(docs, p, n, t, b, k) ==
  IF b >= k THEN docs
  ELSE AddedBatches(Upsert(docs, AddBatch(p, n, t, b)), p, n, t, b + 1, k)

AddBatches(docs, p, n, t, f) ==
  LET failing == f.at = "embed" /\ f.batch < NumBatches(n)
      k == IF failing THEN f.batch ELSE NumBatches(n)
      tried == IF failing THEN k + 1 ELSE k
  IN [docs |-> AddedBatches(docs, p, n, t, 0, k), calls |-> tried,
      texts |-> MaxTexts(n, tried), attempts |-> IF failing THEN 1 ELSE 0,
      raised |-> failing]

\* Lines 536-540
AppendDocument(info, added) ==
  [info EXCEPT !.has_documents = TRUE, !.documents = Append(info.documents, added)]

\* A plausible bug: any store object passes, not only a Chroma one.
AddGate_any_store ==
  IF config_type # "chroma" THEN "unsupported_config"
  ELSE IF vector_store = NoStore THEN "no_store"
  ELSE "ok"
\* Lines 453-465: the message of the capability check, "ok" when it passes
AddGate ==
  IF config_type # "chroma" THEN "unsupported_config"
  ELSE IF vector_store.kind # "chroma" THEN "no_store"
  ELSE "ok"

\* One call of add_document.
add_document(p, t, f) ==
  LET v == validate_pdf_file(p)
      h == vector_store.hash
      bytes == FileBytes(p)
      pages == PagesOf(bytes)
      n == ChunksOf(bytes)
      b == AddBatches(chroma_db[h].docs, p, n, t, f)
      added == AddedInfo(p, pages, n)
      early == IF AddGate # "ok" THEN AddGate
               ELSE IF v # "ok" THEN v
               ELSE IF f.at = "load" THEN "load_error"
               ELSE IF pages = 0 THEN "empty_document"
               ELSE IF f.at = "split" THEN "split_error"
               ELSE IF n = 0 THEN "split_failed"
               ELSE "ok"
  IN /\ calls < MaxCalls
     /\ calls' = calls + 1
     \* the clock is read, and a fault is an input, only when the call gets there
     /\ IF early = "ok" THEN t \in now..MaxTime ELSE t = now
     /\ f # NoFault =>
          \/ f.at = "load" /\ early = "load_error"
          \/ f.at = "split" /\ early = "split_error"
          \/ f.at = "embed" /\ early = "ok" /\ b.raised
     /\ UNCHANGED <<config_type, cache, vector_store, qa_chain, current_document, embeddings,
                    threads, web>>
     /\ IF early # "ok" THEN
          /\ result' = IF AddGate # "ok" THEN Failure("add", p, "", early)
                       ELSE Except("add", p, "", early)
          /\ UNCHANGED <<chroma_db, now, document_info>>
        ELSE
          /\ now' = t
          /\ chroma_db' = [chroma_db EXCEPT ![h].docs = b.docs]
          /\ IF b.raised THEN
               /\ result' = [Except("add", p, "", "embedding_error") EXCEPT
                               !.embed_calls = b.calls, !.max_texts = b.texts,
                               !.attempts = b.attempts]
               /\ UNCHANGED document_info
             ELSE
               /\ document_info' = AppendDocument(document_info, added)
               /\ result' = [Failure("add", p, "", "ok") EXCEPT
                               !.success = TRUE, !.embed_calls = b.calls,
                               !.max_texts = b.texts,
                               !.info = [NoInfo EXCEPT
                                           !.base = TRUE, !.file_name = added.file_name,
                                           !.file_path = p, !.pages_count = pages,
                                           !.chunks_count = n]]

AddDocument(p, t, f) == add_document(p, t, f) /\ UNCHANGED ui_documents

----------------------------------------------------------------------------
(* delete_document_by_source and list_documents *)

\* A plausible bug: the match also takes the base name of 'source', as
\* list_documents does.
DeleteMatches_by_listed_name(docs, name) ==
  {d \in docs : (IF d.source_file # NoName THEN d.source_file ELSE Basename(d.source)) = name}
\* A plausible bug: only the matches among the first BATCH_SIZE chunks of a
\* document are collected.
DeleteMatches_first_batch(docs, name) ==
  {d \in docs : d.source_file = name /\ d.text < BATCH_SIZE}
\* Lines 580-583: the entries whose source_file metadata equals the name
DeleteMatches(docs, name) == {d \in docs : d.source_file = name}

\* Lines 562-572
DeleteGate ==
  IF config_type # "chroma" THEN "unsupported_config"
  ELSE IF vector_store.kind # "chroma" THEN "no_store"
  ELSE "ok"

DeleteDocumentBySource(name, f) ==
  LET h == vector_store.hash
      gone == DeleteMatches(chroma_db[h].docs, name)
  IN /\ calls < MaxCalls
     /\ calls' = calls + 1
     /\ f # NoFault => DeleteGate = "ok"
     /\ UNCHANGED <<config_type, cache, now, instance, ui_documents, threads, web>>
     /\ IF DeleteGate # "ok" THEN
          /\ result' = Failure("delete", NoPath, name, DeleteGate)
          /\ UNCHANGED chroma_db
        ELSE IF f.at = "store" THEN
          /\ result' = Except("delete", NoPath, name, "delete_error")
          /\ UNCHANGED chroma_db
        ELSE IF gone = {} THEN
          /\ result' = Failure("delete", NoPath, name, "source_not_found")
          /\ UNCHANGED chroma_db
        ELSE
          /\ chroma_db' = [chroma_db EXCEPT ![h].docs = chroma_db[h].docs \ gone]
          /\ result' = [Failure("delete", NoPath, name, "ok") EXCEPT
                          !.success = TRUE, !.deleted_count = Cardinality(gone)]

\* Lines 630-636: source_file, else the base name of source
ListedName(d) == IF d.source_file # NoName THEN d.source_file ELSE Basename(d.source)

\* Lines 621-652: the entries list_documents returns for a store
ChromaListing(docs) ==
  {[source_file |-> nm, file_name |-> NoName,
    chunks_count |-> Cardinality({d \in docs : ListedName(d) = nm})] :
     nm \in {ListedName(d) : d \in docs} \ {NoName}}
ListEntries(store, info) ==
  IF store.kind = "chroma" THEN ChromaListing(chroma_db[store.hash].docs)
  ELSE IF store.kind = "faiss" THEN
    IF InfoTruthy(info) THEN
      {[source_file |-> NoName, file_name |-> info.file_name,
        chunks_count |-> info.chunks_count]}
    ELSE {}
  ELSE {}

ListDocuments(f) ==
  /\ calls < MaxCalls
  /\ calls' = calls + 1
  /\ f # NoFault => vector_store.kind = "chroma"
  /\ UNCHANGED <<config_type, disk, now, instance, ui_documents, threads, web>>
  /\ result' =
       IF vector_store = NoStore THEN Failure("list", NoPath, "", "no_store")
       ELSE IF f.at = "store" /\ vector_store.kind = "chroma" THEN
         Except("list", NoPath, "", "list_error")
       ELSE [Failure("list", NoPath, "", "ok") EXCEPT
               !.success = TRUE, !.documents = ListEntries(vector_store, document_info)]

\* reset, and a freshly constructed instance
Reset ==
  /\ calls < MaxCalls
  /\ calls' = calls + 1
  /\ qa_chain' = NoStore
  /\ current_document' = NoPath
  /\ document_info' = NoInfo
  /\ vector_store' = NoStore
  /\ embeddings' = FALSE
  /\ result' = [NoResult EXCEPT !.op = "reset"]
  /\ UNCHANGED <<config_type, disk, now, ui_documents, threads, web>>

----------------------------------------------------------------------------
(* The embedding gateway called by another holder of the object *)

\* the numbers of texts passed to embed_documents directly
GatewayInputs == {1, BATCH_SIZE + 1}

EmbedDocuments(n) ==
  /\ calls < MaxCalls
  /\ calls' = calls + 1
  /\ result' = [NoResult EXCEPT !.op = "embed", !.success = TRUE, !.msg = "ok",
                                !.embed_calls = Len(embed_documents(n)),
                                !.max_texts = Largest(Sizes(embed_documents(n)))]
  /\ UNCHANGED <<config_type, disk, now, instance, ui_documents, threads, web>>

----------------------------------------------------------------------------
(* The cache directory damaged from outside, while no store object of the
   instance is open on it: the shapes load_embeddings_cache provides for. *)

Damages ==
  {"meta_missing", "meta_unreadable", "unknown_type", "chroma_dir_missing",
   "empty_collection"}

DamagedEntry(e, d) ==
  CASE d = "meta_missing" -> [e EXCEPT !.dir = TRUE, !.meta = "none"]
    [] d = "meta_unreadable" -> [e EXCEPT !.dir = TRUE, !.meta = "corrupt"]
    [] d = "unknown_type" -> [e EXCEPT !.dir = TRUE, !.meta = "ok", !.type = "other"]
    [] OTHER -> [e EXCEPT !.dir = TRUE, !.meta = "ok", !.type = "chroma"]
DamagedCollection(c, d) ==
  CASE d = "chroma_dir_missing" -> NoCollection
    [] d = "empty_collection" -> [exists |-> TRUE, docs |-> {}]
    [] OTHER -> c

DamageCache(h, d) ==
  /\ calls < MaxCalls
  /\ calls' = calls + 1
  /\ vector_store.hash # h
  /\ qa_chain.hash # h
  /\ <<DamagedEntry(cache[h], d), DamagedCollection(chroma_db[h], d)>>
       # <<cache[h], chroma_db[h]>>
  /\ cache' = [cache EXCEPT ![h] = DamagedEntry(cache[h], d)]
  /\ chroma_db' = [chroma_db EXCEPT ![h] = DamagedCollection(chroma_db[h], d)]
  /\ result' = [NoResult EXCEPT !.op = "damage", !.file_hash = h, !.arg = d]
  /\ UNCHANGED <<config_type, now, instance, ui_documents, threads, web>>

----------------------------------------------------------------------------
(* GradioRAGApp.upload_documents, for one uploaded file *)

UploadPaths == {PathA, PathC}

\* the parameters (after self) of the core's methods, and the arguments the
\* UI passes: (tmp_file_path, original_filename)
process_document_params == 1
add_document_params == 1
upload_call_args == 2
\* a call binds when it passes as many positional arguments as the method
\* has parameters; Python raises TypeError otherwise
Binds(args, params) == args = params

UploadDocuments(p, t, f) ==
  LET is_first_upload == ui_documents = <<>>
      reinit == ~is_first_upload /\ config_type # "chroma"
      target == IF is_first_upload \/ reinit THEN "process" ELSE "add"
      params == IF target = "process" THEN process_document_params ELSE add_document_params
      kept == IF reinit THEN <<>> ELSE ui_documents
  IN IF ~Binds(upload_call_args, params) THEN
       \* the TypeError is caught per file; the file is reported as failed
       /\ calls < MaxCalls
       /\ calls' = calls + 1
       /\ t = now
       /\ f = NoFault
       /\ result' = Except("upload", p, "", "type_error")
       /\ UNCHANGED <<config_type, disk, now, instance, ui_documents, threads, web>>
     ELSE
       /\ IF target = "process" THEN t = now /\ process_document(p, f)
          ELSE add_document(p, t, f)
       /\ ui_documents' = IF result'.success THEN Append(kept, result'.info) ELSE kept

----------------------------------------------------------------------------
(* Concurrent callers. The methods take no lock, so a call of one caller
   may start while a call of another is between two of its store requests.
   add_document is split at its add_texts requests (lines 507-521) and
   delete_document_by_source between collection.get and collection.delete
   (lines 577-592); list_documents reads the collection in one request. *)

\* the collection a mutation in flight works on
ActiveDocs == chroma_db[vector_store.hash].docs

\* Lines 453-505 of add_document, for a call that reaches the batch loop
BeginAdd(th, p, t) ==
  /\ calls < MaxCalls
  /\ calls' = calls + 1
  /\ threads[th].pc = "idle"
  /\ AddGate = "ok"
  /\ validate_pdf_file(p) = "ok"
  /\ PagesOf(FileBytes(p)) > 0
  /\ ChunksOf(FileBytes(p)) > 0
  /\ t \in now..MaxTime
  /\ now' = t
  /\ threads' = [threads EXCEPT ![th] =
                   [Idle EXCEPT !.pc = "add", !.path = p, !.t = t, !.pre = ActiveDocs]]
  /\ UNCHANGED <<config_type, disk, instance, result, ui_documents, web>>

\* Lines 507-521: one iteration of the batch loop
AddBatchStep(th) ==
  LET c == threads[th]
      n == ChunksOf(FileBytes(c.path))
      h == vector_store.hash
  IN /\ c.pc = "add"
     /\ c.k < NumBatches(n)
     /\ vector_store.kind = "chroma"
     /\ chroma_db' = [chroma_db EXCEPT
                        ![h].docs = Upsert(chroma_db[h].docs, AddBatch(c.path, n, c.t, c.k))]
     /\ threads' = [threads EXCEPT ![th].k = c.k + 1]
     /\ UNCHANGED <<config_type, cache, now, instance, result, calls, ui_documents, web>>

\* Lines 523-548: the document is recorded and the call returns
FinishAdd(th) ==
  LET c == threads[th]
      bytes == FileBytes(c.path)
      n == ChunksOf(bytes)
      added == AddedInfo(c.path, PagesOf(bytes), n)
  IN /\ c.pc = "add"
     /\ c.k = NumBatches(n)
     /\ document_info' = AppendDocument(document_info, added)
     /\ result' = [Failure("add", c.path, "", "ok") EXCEPT
                     !.success = TRUE, !.embed_calls = NumBatches(n),
                     !.max_texts = MaxTexts(n, NumBatches(n)),
                     !.info = [NoInfo EXCEPT
                                 !.base = TRUE, !.file_name = added.file_name,
                                 !.file_path = c.path, !.pages_count = PagesOf(bytes),
                                 !.chunks_count = n]]
     /\ threads' = [threads EXCEPT ![th] = Idle]
     /\ UNCHANGED <<config_type, disk, now, vector_store, qa_chain, current_document,
                    embeddings, calls, ui_documents, web>>

\* Lines 562-589: the checks, collection.get() and the ids to delete
BeginDelete(th, name) ==
  LET ids == {d.id : d \in DeleteMatches(ActiveDocs, name)}
  IN /\ calls < MaxCalls
     /\ calls' = calls + 1
     /\ threads[th].pc = "idle"
     /\ DeleteGate = "ok"
     /\ IF ids = {} THEN
          /\ result' = Failure("delete", NoPath, name, "source_not_found")
          /\ UNCHANGED threads
        ELSE
          /\ threads' = [threads EXCEPT ![th] =
                           [Idle EXCEPT !.pc = "delete", !.name = name, !.ids = ids,
                                        !.pre = ActiveDocs]]
          /\ UNCHANGED result
     /\ UNCHANGED <<config_type, disk, now, instance, ui_documents, web>>

\* Lines 592-600: collection.delete(ids=ids_to_delete) and the return
FinishDelete(th) ==
  LET c == threads[th]
      h == vector_store.hash
  IN /\ c.pc = "delete"
     /\ vector_store.kind = "chroma"
     /\ chroma_db' = [chroma_db EXCEPT
                        ![h].docs = {d \in chroma_db[h].docs : d.id \notin c.ids}]
     /\ result' = [Failure("delete", NoPath, c.name, "ok") EXCEPT
                     !.success = TRUE, !.deleted_count = Cardinality(c.ids)]
     /\ threads' = [threads EXCEPT ![th] = Idle]
     /\ UNCHANGED <<config_type, cache, now, instance, calls, ui_documents, web>>

\* list_documents called by a caller that has no call in flight
ConcListDocuments(th) ==
  /\ threads[th].pc = "idle"
  /\ ListDocuments(NoFault)

\* process_document, before the callers start
ConcProcessDocument(p) ==
  /\ \A th \in Threads : threads[th].pc = "idle"
  /\ vector_store = NoStore
  /\ ProcessDocument(p, NoFault)

----------------------------------------------------------------------------
(* Chat history: GradioRAGApp's history panel over ChatHistoryDB *)

\* self.current_user is None
NoUser == 0
Users == {1, 2}
\* the chat_sessions table holds at most MaxSessions rows
MaxSessions == 2

\* the state of the core and of the upload handler
core == <<config_type, cache, chroma_db, now, vector_store, qa_chain, current_document,
          document_info, embeddings, result, calls, ui_documents, threads>>

NoView == [op |-> "none", user |-> NoUser, rows |-> {}]

\* ChatHistoryDB.get_recent_sessions(limit, user_id): the WHERE clause is
\* applied only when user_id is not None
get_recent_sessions(user_id) ==
  IF user_id # NoUser THEN {s \in chat_sessions : s.user_id = user_id}
  ELSE chat_sessions

\* ChatHistoryDB.search_messages(query, user_id=user_id): the sessions of the
\* matching messages; every stored message matches the query
search_messages(user_id) ==
  IF user_id # NoUser THEN {s \in chat_sessions : s.messages > 0 /\ s.user_id = user_id}
  ELSE {s \in chat_sessions : s.messages > 0}

\* set_current_user, from the JWT cookie of the request
SetCurrentUser(u) ==
  /\ u # current_user
  /\ current_user' = u
  /\ UNCHANGED <<core, chat_sessions, history_view, session_store, requests>>

\* handle_logout: the user is cleared and the session list refreshed
HandleLogout ==
  /\ current_user # NoUser
  /\ current_user' = NoUser
  /\ history_view' = [op |-> "sessions", user |-> NoUser,
                      rows |-> get_recent_sessions(NoUser)]
  /\ UNCHANGED <<core, chat_sessions, session_store, requests>>

\* ChatHistoryDB.create_session(..., user_id=self.get_current_user_id())
CreateSession ==
  /\ Cardinality(chat_sessions) < MaxSessions
  /\ chat_sessions' = chat_sessions \cup
       {[session_id |-> Cardinality(chat_sessions) + 1, user_id |-> current_user,
         messages |-> 0]}
  /\ UNCHANGED <<core, current_user, history_view, session_store, requests>>

\* ChatHistoryDB.add_message to a session of the current user
AddMessage(id) ==
  /\ \E s \in chat_sessions :
       /\ s.session_id = id
       /\ s.user_id = current_user
       /\ s.messages = 0
       /\ chat_sessions' = (chat_sessions \ {s}) \cup {[s EXCEPT !.messages = 1]}
  /\ UNCHANGED <<core, current_user, history_view, session_store, requests>>

GetSessionsForRadio ==
  /\ history_view' = [op |-> "sessions", user |-> current_user,
                      rows |-> get_recent_sessions(current_user)]
  /\ UNCHANGED <<core, current_user, chat_sessions, session_store, requests>>

SearchChatHistory ==
  /\ history_view' = [op |-> "search", user |-> current_user,
                      rows |-> search_messages(current_user)]
  /\ UNCHANGED <<core, current_user, chat_sessions, session_store, requests>>

----------------------------------------------------------------------------
(* GitHub login: /auth/github and /auth/callback (src/github_auth.py) *)

NoState == "none"
OAuthStates == {"s1", "s2"}
Requests == {"r1", "r2"}
NoRequest == [pc |-> "idle", state |-> NoState, passed |-> FALSE, jwt |-> FALSE]

\* github_login: a fresh state is stored and sent as the oauth_state cookie
GithubLogin(s) ==
  /\ s \notin session_store
  /\ session_store' = session_store \cup {s}
  /\ UNCHANGED <<core, current_user, chat_sessions, history_view, requests>>

\* Lines 245-260 of github_callback, up to the first await: the state check
\* against the oauth_state cookie and session_store
CallbackCheck(r, s, cookie) ==
  /\ requests[r].pc = "idle"
  /\ requests' = [requests EXCEPT ![r] =
       IF s = NoState \/ cookie = NoState \/ cookie # s \/ s \notin session_store
       THEN [pc |-> "done", state |-> s, passed |-> FALSE, jwt |-> FALSE]
       ELSE [pc |-> "exchanging", state |-> s, passed |-> TRUE, jwt |-> FALSE]]
  /\ UNCHANGED <<core, current_user, chat_sessions, history_view, session_store>>

\* Lines 262-343: the code is exchanged and the user fetched (awaits); when
\* both succeed the JWT is created and the state popped, otherwise the
\* handler answers 500 and the state stays
CallbackFinish(r, ok) ==
  /\ requests[r].pc = "exchanging"
  /\ requests' = [requests EXCEPT ![r].pc = "done", ![r].jwt = ok]
  /\ session_store' = IF ok THEN session_store \ {requests[r].state} ELSE session_store
  /\ UNCHANGED <<core, current_user, chat_sessions, history_view>>

----------------------------------------------------------------------------
Init ==
  /\ current_user = NoUser
  /\ chat_sessions = {}
  /\ history_view = NoView
  /\ session_store = {}
  /\ requests = [r \in Requests |-> NoRequest]
  /\ ui_documents = <<>>
  /\ threads = [t \in Threads |-> Idle]
  /\ config_type = "chroma"
  /\ cache = [h \in Hashes |-> NoCache]
  /\ chroma_db = [h \in Hashes |-> NoCollection]
  /\ now = 0
  /\ vector_store = NoStore
  /\ qa_chain = NoStore
  /\ current_document = NoPath
  /\ document_info = NoInfo
  /\ embeddings = FALSE
  /\ result = NoResult
  /\ calls = 0

\* config.VECTOR_STORE_TYPE = vector_store_type, by any holder of the config
SetVectorStoreType(t) ==
  /\ calls < MaxCalls
  /\ t # config_type
  /\ config_type' = t
  /\ UNCHANGED <<disk, now, instance, result, calls, ui_documents, threads, web>>

Next ==
  \/ \E p \in Paths, f \in ProcessFaults : ProcessDocument(p, f)
  \/ \E q \in Questions, f \in AskFaults : AskQuestion(q, f)
  \/ \E f \in AskFaults : GetDocumentSummary(f)
  \/ \E p \in AddPaths, t \in 0..MaxTime, f \in AddFaults : AddDocument(p, t, f)
  \/ \E name \in SourceNames, f \in StoreFaults : DeleteDocumentBySource(name, f)
  \/ \E f \in StoreFaults : ListDocuments(f)
  \/ Reset
  \/ \E t \in {"chroma", "faiss"} : SetVectorStoreType(t)

Spec == Init /\ [][Next]_vars

\* The instance with a cache directory that is damaged between its calls.
CacheNext ==
  \/ \E p \in Paths, f \in ProcessFaults : ProcessDocument(p, f)
  \/ \E h \in Hashes, d \in Damages : DamageCache(h, d)
  \/ Reset
  \/ \E t \in {"chroma", "faiss"} : SetVectorStoreType(t)

CacheSpec == Init /\ [][CacheNext]_vars

\* The instance as the application uses it: through the upload handler of
\* the UI, through its own ingestion methods, and with the embedding gateway
\* called directly.
AppNext ==
  \/ \E p \in UploadPaths, t \in 0..MaxTime, f \in ProcessFaults : UploadDocuments(p, t, f)
  \/ \E n \in GatewayInputs : EmbedDocuments(n)
  \/ \E p \in Paths, f \in ProcessFaults : ProcessDocument(p, f)
  \/ \E p \in AddPaths, t \in 0..MaxTime, f \in AddFaults : AddDocument(p, t, f)
  \/ \E t \in {"chroma", "faiss"} : SetVectorStoreType(t)

AppSpec == Init /\ [][AppNext]_vars

\* The instance called by two callers at once.
ConcNext ==
  \/ \E p \in {PathA, PathC} : ConcProcessDocument(p)
  \/ \E th \in Threads, p \in AddPaths, t \in 0..MaxTime : BeginAdd(th, p, t)
  \/ \E th \in Threads : AddBatchStep(th)
  \/ \E th \in Threads : FinishAdd(th)
  \/ \E th \in Threads, name \in SourceNames : BeginDelete(th, name)
  \/ \E th \in Threads : FinishDelete(th)
  \/ \E th \in Threads : ConcListDocuments(th)

ConcSpec == Init /\ [][ConcNext]_vars

\* The history panel used by the visitors of the application.
HistoryNext ==
  \/ \E u \in Users : SetCurrentUser(u)
  \/ HandleLogout
  \/ CreateSession
  \/ \E id \in 1..MaxSessions : AddMessage(id)
  \/ GetSessionsForRadio
  \/ SearchChatHistory

HistorySpec == Init /\ [][HistoryNext]_vars

\* The GitHub login with two callback requests in flight.
OAuthNext ==
  \/ \E s \in OAuthStates : GithubLogin(s)
  \/ \E r \in Requests, s \in OAuthStates \cup {NoState},
        cookie \in OAuthStates \cup {NoState} : CallbackCheck(r, s, cookie)
  \/ \E r \in Requests, ok \in BOOLEAN : CallbackFinish(r, ok)

OAuthSpec == Init /\ [][OAuthNext]_vars

----------------------------------------------------------------------------
(* Properties *)

\* the step is a call of the method `op`
Called(op) == calls' = calls + 1 /\ result'.op = op

\* collection.count() of a store object
StoreCount(store) ==
  IF store.kind = "chroma" THEN Count(store.hash)
  ELSE IF store.kind = "faiss" THEN store.n
  ELSE 0

\* C1: re-ingesting the bytes of the document this instance holds, under the
\* backend it was ingested with, is a cache hit without embedding calls, and
\* reports the chunks_count and the pages_count of the first call.
C1_IdempotentReingestion ==
  [][(/\ Called("process")
      /\ validate_pdf_file(result'.path) = "ok"
      /\ document_info.base
      /\ FileBytes(document_info.file_path) = FileBytes(result'.path)
      /\ document_info.vector_store_type = config_type)
     => (/\ result'.file_hash = document_info.file_hash
         /\ result'.cache_hit
         /\ result'.embed_calls = 0
         /\ result'.success =>
              /\ result'.info.chunks_count = document_info.chunks_count
              /\ result'.info.pages_count = document_info.pages_count)]_vars

\* C2: two paths with the same bytes have the same digest, and once this
\* instance has ingested one of them, process_document of the other is a
\* cache hit: no embedding call, no change of the collection or the cache.
C2_SameBytesCacheHit ==
  [][/\ \A p, q \in Paths :
          PathExists(p) /\ PathExists(q) /\ FileBytes(p) = FileBytes(q)
            => get_file_hash(p) = get_file_hash(q)
     /\ (/\ Called("process")
         /\ validate_pdf_file(result'.path) = "ok"
         /\ document_info.base
         /\ FileBytes(document_info.file_path) = FileBytes(result'.path))
        => (/\ result'.cache_hit
            /\ result'.embed_calls = 0
            /\ UNCHANGED <<cache, chroma_db>>)]_vars

\* C2's case: a successful cache hit on an entry that was built from a file
\* of another name
C2_Witness ==
  /\ result.op = "process"
  /\ result.success
  /\ result.cache_hit
  /\ cache[result.file_hash].source # result.path
  /\ Basename(cache[result.file_hash].source) # Basename(result.path)

C4_FailedIngestionKeepsInstance ==
  [][(Called("process") /\ ~result'.success)
     => UNCHANGED <<qa_chain, vector_store, current_document, document_info>>]_vars

\* C5: when the configured backend is not chroma or the active store is a
\* FAISS store, add_document and delete_document_by_source fail with the
\* capability message and change neither the collections, the cache, the
\* chain nor document_info.
C5_CapabilityGating ==
  [][((Called("add") \/ Called("delete"))
      /\ (config_type # "chroma" \/ vector_store.kind = "faiss"))
     => (/\ ~result'.success
         /\ result'.msg \in {"unsupported_config", "no_store"}
         /\ UNCHANGED <<chroma_db, cache, vector_store, qa_chain, document_info>>)]_vars

\* C5's case: add_document was refused because the active store, loaded by
\* a successful process_document, is a FAISS store
C5_Witness ==
  /\ result.op = "add"
  /\ result.msg = "no_store"
  /\ vector_store.kind = "faiss"
  /\ qa_chain = vector_store
  /\ document_info.base

\* C6: an add_document that fails in an embedding / store call leaves the
\* active collection with the chunk set it had before the call.
C6_AddAllOrNothing ==
  [][(Called("add") /\ ~result'.success /\ result'.msg = "embedding_error")
     => chroma_db' = chroma_db]_vars

\* the names list_documents reports for the active Chroma collection
ListedNames == {e.source_file : e \in ListEntries(vector_store, document_info)}

\* C7: after delete_document_by_source of a name that list_documents reports
\* for the active Chroma collection, the name is no longer reported and no
\* chunk of the collection has it as its source name.
C7_DeleteRemovesListedName ==
  [][(/\ Called("delete")
      /\ config_type = "chroma"
      /\ vector_store.kind = "chroma"
      /\ result'.arg \in ListedNames
      /\ result'.msg # "delete_error")
     => (/\ result'.arg \notin ListedNames'
         /\ \A d \in chroma_db'[vector_store.hash].docs : ListedName(d) # result'.arg)]_vars

\* the entries C8 expects of list_documents: one per document that
\* document_info records, with the document's own chunk count
ExpectedEntries(info) ==
  {[source_file |-> info.file_name, file_name |-> NoName, chunks_count |-> info.chunks_count]}
  \cup {[source_file |-> info.documents[i].file_name, file_name |-> NoName,
         chunks_count |-> info.documents[i].chunks_count] : i \in 1..Len(info.documents)}
ListAsExpected ==
  ListEntries(vector_store, document_info) = ExpectedEntries(document_info)
DistinctNames(info) ==
  Cardinality({info.file_name} \cup {info.documents[i].file_name : i \in 1..Len(info.documents)})
    = 1 + Len(info.documents)

\* C8: after process_document has built a Chroma collection, list_documents
\* reports the one document with its chunk count; and each successful
\* add_document of a file with a new name adds one entry with that file's
\* chunk count and leaves the entries of the other documents as they were.
C8_ListAfterAdds ==
  [][/\ (/\ Called("process")
         /\ result'.success
         /\ ~result'.cache_hit
         /\ vector_store'.kind = "chroma")
          => ListAsExpected'
     /\ (/\ Called("add")
         /\ result'.success
         /\ document_info.base
         /\ ListAsExpected
         /\ DistinctNames(document_info'))
          => ListAsExpected']_vars

Blank(q) == q \in {"", "  "}

C10_AnsweredOnlyWhenReady ==
  (result.op = "ask" /\ ~Blank(result.arg))
  => (/\ result.chain_calls > 0 =>
           (qa_chain # NoStore /\ StoreCount(qa_chain) > 0 /\ StoreCount(vector_store) > 0)
      /\ ~(qa_chain # NoStore /\ StoreCount(qa_chain) > 0) =>
           (result.msg = "no_document" /\ ~result.success /\ result.chain_calls = 0)
      /\ result.chain_calls <= 1)

\* C10's case: a real question asked after reset, with an ingested document
\* still cached on disk
C10_Witness ==
  /\ result.op = "ask"
  /\ result.arg = "q"
  /\ result.msg = "no_document"
  /\ qa_chain = NoStore
  /\ \E h \in Hashes : load_embeddings_cache(h) # NoStore

----------------------------------------------------------------------------
(* Embedding: batch size, retry, order *)

\* C11: no request to the embedding service carries more than BATCH_SIZE
\* texts, whether it is sent by a Chroma build, a FAISS build, add_document
\* or a direct call of the gateway's embed_documents with a longer list.
C11_BatchSizeBound == result.max_texts <= BATCH_SIZE

\* C12: process_document fails with an embedding error only after the
\* failing batch has been attempted MAX_RETRIES times, under either backend.
C12_EmbeddingRetried ==
  (result.op = "process" /\ result.msg = "embedding_error")
  => result.attempts = MAX_RETRIES

\* C13: after process_document has built a store of n chunks, the store holds
\* exactly n entries and entry i pairs text i (and its vector) with metadata
\* i; in a Chroma collection entry i is the one under the id '<hash>_i'.
C13_OrderPreserved ==
  [][(Called("process") /\ result'.success /\ ~result'.cache_hit)
     => LET h == result'.file_hash
            n == ChunksOf(FileBytes(result'.path))
            docs == chroma_db'[h].docs
        IN IF vector_store'.kind = "chroma" THEN
             /\ Cardinality(docs) = n
             /\ \A i \in 0..(n - 1) :
                  \E d \in docs : d.id = BuildId(h, i) /\ d.text = i /\ d.meta = i
           ELSE
             /\ vector_store'.n = n
             /\ FaissMerged(<<>>, n, 0) = [i \in 1..n |-> <<i - 1, i - 1>>]]_vars

\* C13's case: a Chroma collection built in two batches, the second shorter
C13_Witness ==
  /\ result.op = "process"
  /\ result.success
  /\ ~result.cache_hit
  /\ result.embed_calls = 2
  /\ vector_store.kind = "chroma"
  /\ Count(vector_store.hash) = MaxChunks
  /\ MaxChunks % BATCH_SIZE # 0

----------------------------------------------------------------------------
(* Cache entries and faults *)

\* the shapes of a cache entry that cannot be loaded: no directory, no
\* metadata record or an unreadable one, an unknown backend type, a Chroma
\* entry whose directory is missing or whose collection is empty
Dangling(h) ==
  \/ ~cache[h].dir
  \/ cache[h].meta \in {"none", "corrupt"}
  \/ cache[h].type \notin {"faiss", "chroma"}
  \/ cache[h].type = "chroma" /\ (~chroma_db[h].exists \/ chroma_db[h].docs = {})

\* C14: load_embeddings_cache of a dangling or corrupt entry is a miss, and a
\* process_document that finds one does not fail on it: it takes the
\* cache-miss path, no exception leaves it, and when its build succeeds the
\* store it built is active and the entry can be loaded again.
C14_DanglingCacheIsMiss ==
  [][/\ \A h \in Hashes : Dangling(h) => load_embeddings_cache(h) = NoStore
     /\ (/\ Called("process")
         /\ validate_pdf_file(result'.path) = "ok"
         /\ Dangling(get_file_hash(result'.path)))
        => (/\ ~result'.cache_hit
            /\ ~result'.escaped
            /\ result'.dangling = cache[result'.file_hash].dir
            /\ result'.success =>
                 /\ result'.embed_calls > 0
                 /\ vector_store' # NoStore
                 /\ \A h \in Hashes :
                      h = result'.file_hash
                      => load_embeddings_cache(h)' = vector_store')]_vars

\* C14's case: process_document succeeded by rebuilding over a cache
\* directory it could not load
C14_Witness ==
  /\ result.op = "process"
  /\ result.success
  /\ result.dangling
  /\ ~result.cache_hit
  /\ load_embeddings_cache(result.file_hash) = vector_store

PublicOps == {"process", "add", "delete", "list", "ask", "summary"}

\* C15: every call of a public method returns a result with a success flag
\* and a message; no exception leaves the method, whatever the input and
\* whichever collaborator fails.
C15_NoFaultEscapes ==
  result.op \in PublicOps
  => (/\ ~result.escaped
      /\ result.success \in BOOLEAN
      /\ result.msg # "none")

\* C15's case: the store raised inside delete_document_by_source and the
\* call returned a failure result
C15_Witness ==
  /\ result.op = "delete"
  /\ result.msg = "delete_error"
  /\ ~result.success
  /\ ~result.escaped

----------------------------------------------------------------------------
(* The UI's upload handler, deletion, and the completion call *)

\* C18: a valid PDF uploaded through upload_documents reaches the core: the
\* call into process_document / add_document binds its two arguments
\* (path, display name) and completes with the core's own result, and a
\* document the core ingested is recorded in the UI's documents map.
C18_UploadReachesCore ==
  (result.op = "upload" /\ validate_pdf_file(result.path) = "ok")
  => result.msg # "type_error"

\* C19: delete_document_by_source(name) on a Chroma collection removes
\* exactly the entries whose source_file equals name: deleted_count is their
\* number, the count drops by it, every other entry and every other
\* collection stays; with no such entry the call fails as not found and
\* changes nothing.
C19_DeleteExactlyMatching ==
  [][(Called("delete") /\ DeleteGate = "ok" /\ result'.msg # "delete_error")
     => LET h == vector_store.hash
            docs == chroma_db[h].docs
            matching == {d \in docs : d.source_file = result'.arg}
        IN /\ \A g \in Hashes \ {h} : chroma_db'[g] = chroma_db[g]
           /\ IF matching # {} THEN
                /\ result'.success
                /\ result'.deleted_count = Cardinality(matching)
                /\ Cardinality(chroma_db'[h].docs)
                     = Cardinality(docs) - result'.deleted_count
                /\ chroma_db'[h].docs = docs \ matching
              ELSE
                /\ ~result'.success
                /\ result'.msg = "source_not_found"
                /\ result'.deleted_count = 0
                /\ chroma_db'[h] = chroma_db[h]]_vars

\* C19's case: an added document of more than one batch was deleted and the
\* chunks of the first document stayed
C19_Witness ==
  /\ result.op = "delete"
  /\ result.success
  /\ result.deleted_count > BATCH_SIZE
  /\ vector_store.kind = "chroma"
  /\ Count(vector_store.hash) > 0
  /\ \A d \in chroma_db[vector_store.hash].docs : d.source_file # result.arg

\* C20: ask_question invokes the chain at most once; when that invocation
\* fails the call returns success=false, answer None and processing_time 0
\* after exactly one invocation, and qa_chain, vector_store and document_info
\* are unchanged.
C20_CompletionNotRetried ==
  [][Called("ask")
     => (/\ result'.chain_calls <= 1
         /\ result'.msg = "answer_error" =>
              /\ result'.chain_calls = 1
              /\ ~result'.success
              /\ result'.answer = "None"
              /\ result'.processing_time = "0"
              /\ UNCHANGED <<qa_chain, vector_store, document_info>>
         /\ result'.success => result'.chain_calls = 1)]_vars

\* C20's case: the completion service failed under a real question
C20_Witness ==
  /\ result.op = "ask"
  /\ result.arg = "q"
  /\ result.msg = "answer_error"
  /\ result.chain_calls = 1
  /\ qa_chain # NoStore

----------------------------------------------------------------------------
(* Concurrent callers *)

\* the calls that are inside their mutating section
Mutating == {th \in Threads : threads[th].pc \in {"add", "delete"}}

\* C16: at most one of the mutating calls is inside its mutating section on
\* the active collection at a time; a second one waits until the first has
\* returned.
C16_MutualExclusion == Cardinality(Mutating) <= 1

\* the collection an add in flight leaves when it completes alone
PostAdd(c) ==
  LET n == ChunksOf(FileBytes(c.path))
  IN AddedBatches(c.pre, c.path, n, c.t, 0, NumBatches(n))

\* C17: a list_documents that runs while one add_document is in flight
\* returns the listing of the collection as it was before that add or as it
\* is after it, never of a collection holding some of the document's batches.
C17_ConsistentSnapshot ==
  [][\A th \in Threads :
       (/\ Called("list")
        /\ result'.success
        /\ Mutating = {th}
        /\ threads[th].pc = "add")
       => result'.documents \in {ChromaListing(threads[th].pre),
                                 ChromaListing(PostAdd(threads[th]))}]_vars

----------------------------------------------------------------------------
(* Listing, backend type, the UI's reset *)

\* C21: list_documents is available in every state of the instance, the one
\* where nothing has been ingested included: unless the store itself raises,
\* it returns success=true.
C21_ListAvailable ==
  (result.op = "list" /\ result.msg # "list_error") => result.success

\* C22: after a successful process_document, cache hit or miss and whatever
\* backend-type changes came between the calls, document_info's
\* vector_store_type is 'chroma' exactly when the active store is a Chroma
\* store.
C22_RecordedBackendIsActual ==
  (result.op = "process" /\ result.success)
  => (document_info.vector_store_type = "chroma" <=> vector_store.kind = "chroma")

----------------------------------------------------------------------------
(* Chunk ids, chain and store, chunks of the initial build *)

\* C25: every successful add_document of a document of m chunks increases the
\* count of the active collection by exactly m, two adds within one clock
\* second included: no add overwrites a chunk that is already there.
C25_AddNeverOverwrites ==
  [][(Called("add") /\ result'.success)
     => Count(vector_store.hash)' = Count(vector_store.hash) + result'.info.chunks_count]_vars

\* C26: in every state of the instance qa_chain is set exactly when
\* vector_store is set, and when set the chain's retriever reads the
\* collection vector_store refers to, which is the one document_info
\* describes.
C26_ChainStoreCoherent ==
  /\ qa_chain = NoStore <=> vector_store = NoStore
  /\ qa_chain # NoStore =>
       /\ qa_chain = vector_store
       /\ document_info.file_hash = vector_store.hash

\* the chunks of a collection that the initial build wrote
BaseChunks(h) == {d \in chroma_db[h].docs : d.source_file = NoName}

\* C27: the chunks of the initial build carry no source_file, so no
\* delete_document_by_source removes them: in no step does the number of
\* initial-build chunks of a collection decrease, and the active Chroma
\* collection is never empty.
C27_BaseChunksStay ==
  [][/\ \A h \in Hashes : Cardinality(BaseChunks(h)') >= Cardinality(BaseChunks(h))
     /\ \A h \in Hashes :
          (vector_store'.kind = "chroma" /\ vector_store'.hash = h) => Count(h)' > 0
     /\ Called("delete") => \A h \in Hashes : BaseChunks(h)' = BaseChunks(h)]_vars

\* C27's case: the name list_documents shows for the initial document was
\* passed to delete_document_by_source, and its chunks are all still there
C27_Witness ==
  /\ result.op = "delete"
  /\ result.arg = document_info.file_name
  /\ result.msg = "source_not_found"
  /\ vector_store.kind = "chroma"
  /\ Cardinality(BaseChunks(vector_store.hash)) = MaxChunks

\* C28: the chunks_count a cache-hit process_document reports, the length of
\* the cached chunk metadata, is the number of vectors in the collection it
\* loaded, also after add_document and delete_document_by_source have changed
\* that collection.
C28_CacheCountIsCollectionCount ==
  (result.op = "process" /\ result.success /\ result.cache_hit)
  => document_info.chunks_count = StoreCount(vector_store)

\* the backend configured when the instance was constructed
InstanceBackend == "chroma"

\* C30: the backend an instance builds with is the one chosen when it was
\* initialized, whatever config.VECTOR_STORE_TYPE has been set to since on
\* behalf of another instance.
C30_BackendPerInstance ==
  (result.op = "process" /\ result.success /\ ~result.cache_hit)
  => vector_store.kind = InstanceBackend

----------------------------------------------------------------------------
(* Chat history and login *)

\* C24: the session list and the search results shown to the current user,
\* the anonymous one included, hold only sessions and messages whose owner is
\* that user.
C24_HistoryIsolated ==
  \A row \in history_view.rows : row.user_id = history_view.user

\* C29: an OAuth state is used once: of the callback requests that carry one
\* state, at most one passes the state check and is issued a JWT.
C29_StateSingleUse ==
  \A s \in OAuthStates :
    Cardinality({r \in Requests : requests[r].state = s /\ requests[r].jwt}) <= 1

====
